---- MODULE Spec2Model ----
(***************************************************************************)
(* A model of SceneManager (Source/SceneManager.cpp): the texture registry *)
(* (CreateGLTexture, BindGLTextures, DestroyGLTextures, FindTextureID,     *)
(* FindTextureSlot), the material registry (DefineObjectMaterials,         *)
(* FindMaterial) and the transform pipeline (SetTransformations), together *)
(* with the part of the OpenGL / stb_image state these methods act on.     *)
(***************************************************************************)
EXTENDS Integers, Sequences, FiniteSets, TLC

(***************************************************************************)
(* Bounds of the model and constants of the program.                       *)
(***************************************************************************)

\* Number of entries of the array m_textureIDs; a store at an index >= this
\* number lands outside the array.
TextureSlots == 16

\* Cap on the number of texture names glGenTextures hands out in Spec.
MaxNames == 4

\* Cap on the number of texture names glGenTextures hands out in SpecCap.
MaxCapNames == 18

\* Cap on the length of m_objectMaterials in SpecMat.
MaxMaterials == 6

\* Caps on the texture names and on the materials in SpecRegistries.
MaxRegNames == 3

MaxRegMaterials == 3

\* Cap on the number of scene files that fail to load in SpecScene.
MaxBadFiles == 2

VARIABLES
    m_pShaderManager,   \* "NULL" or "shader": the pointer given to the constructor
    m_textureIDs,       \* slot i of the array is m_textureIDs[i + 1]; only the
                        \* slots below m_loadedTextures are ever read
    m_loadedTextures,   \* the registration counter
    m_objectMaterials,  \* std::vector<OBJECT_MATERIAL>
    glTextures,         \* GL texture objects: name -> image uploaded ("none")
    glActiveUnit,       \* the unit selected by glActiveTexture
    glUnits,            \* unit -> name bound to GL_TEXTURE_2D of that unit
    stbImages,          \* decoded image buffers not yet released
    fs,                 \* the image files: name -> channels stbi_load finds
    shader,             \* the uniform slots of the shader manager
    crashed,            \* the process was ended by an invalid memory access
    regLog,             \* history: <<tag, ID>> of every call that returned true
    lastCall,           \* history: the last operation, its arguments and result
    callLog             \* history: the calls the last operation made, in order

vars == <<m_pShaderManager, m_textureIDs, m_loadedTextures, m_objectMaterials,
          glTextures, glActiveUnit, glUnits, stbImages, fs, shader,
          crashed, regLog, lastCall, callLog>>

(***************************************************************************)
(* Inputs.                                                                 *)
(***************************************************************************)

\* The (filename, tag) pairs of LoadSceneTextures, in its order.
SceneTextures ==
    << <<"textures/glasscup.jpg", "glasscup">>,
       <<"textures/wood.jpg", "wood">>,
       <<"textures/vinous-liquid-with-foam-blobs.jpg", "coffee">>,
       <<"textures/lamp.jpg", "lamp">>,
       <<"textures/gold.jpg", "gold">>,
       <<"textures/keyboard.png", "keyboard">>,
       <<"textures/aluminum.png", "aluminum">>,
       <<"textures/login.jpg", "login">>,
       <<"textures/leather.jpg", "leather">>,
       <<"textures/pen.jpg", "pen">> >>

SceneFiles == {SceneTextures[i][1] : i \in DOMAIN SceneTextures}

\* Image files given to CreateGLTexture directly: one that cannot be read,
\* a 1-channel, a 3-channel and a 4-channel image.
Files == {"missing.jpg", "gray.png", "rgb.jpg", "rgba.png"}

\* A file system in which every scene texture decodes (.jpg to 3 channels,
\* .png to 4); 0 stands for a NULL result of stbi_load.
GoodFs ==
    [f \in Files \cup SceneFiles |->
        CASE f = "missing.jpg" -> 0
          [] f = "gray.png" -> 1
          [] f \in {"rgba.png", "textures/keyboard.png", "textures/aluminum.png"} -> 4
          [] OTHER -> 3]

\* colorChannels as stbi_load reports it for a file.
Channels(filename) == fs[filename]

Tags == {"wood", "glasscup"}

\* Tags registered once the scene textures are loaded: one of them and one
\* that is new.
CapTags == {"wood", "brick"}

\* Tags looked up: those registered and one that never is.
LookupTags == Tags \cup CapTags \cup {"marble"}

\* What a store past the end of m_textureIDs does: the process dies, or the
\* bytes read back as written, or they read back as something else.
OobOutcomes == {"crash", "kept", "clobbered"}

Clobbered == [ID |-> 0, tag |-> ""]

(***************************************************************************)
(* The texture registry and the GL state it acts on, as a record, so that  *)
(* a method that calls another (LoadSceneTextures) composes their effects. *)
(***************************************************************************)

World ==
    [ids     |-> m_textureIDs,
     loaded  |-> m_loadedTextures,
     tex     |-> glTextures,
     active  |-> glActiveUnit,
     units   |-> glUnits,
     images  |-> stbImages,
     crashed |-> crashed,
     log     |-> regLog,
     calls   |-> <<>>]

SetWorld(w) ==
    /\ m_textureIDs' = w.ids
    /\ m_loadedTextures' = w.loaded
    /\ glTextures' = w.tex
    /\ glActiveUnit' = w.active
    /\ glUnits' = w.units
    /\ stbImages' = w.images
    /\ crashed' = w.crashed
    /\ regLog' = w.log
    /\ callLog' = w.calls

\* f with f[k] = v, k added to its domain if need be. (In the loops below
\* the state of an iteration is bound by a set, which makes TLC compute it
\* once.)
Put(f, k, v) == (k :> v) @@ f

\* glGenTextures(1, &name): a name not in use. No name is ever deleted, so
\* the names in use are 1 .. Cardinality(DOMAIN tex).
NewName(tex) == Cardinality(DOMAIN tex) + 1

\* The name bound to GL_TEXTURE_2D of a unit; 0 when nothing was ever bound.
UnitBinding(units, u) == IF u \in DOMAIN units THEN units[u] ELSE 0

\* m_textureIDs[index] as it reads back after `entry` is stored there.
StoredEntry(index, entry, oob) ==
    IF index < TextureSlots \/ oob = "kept" THEN entry ELSE Clobbered

\* A faulty variant of CreateGLTextureOn: an image of any channel count is
\* registered.
CreateGLTextureOn_AnyChannels(w, filename, tag, oob) ==
    LET textureID == NewName(w.tex)
        uploaded == [w EXCEPT !.tex = Put(@, textureID, filename),
                              !.units = Put(@, w.active, 0)]
        entry == StoredEntry(w.loaded, [ID |-> textureID, tag |-> tag], oob)
    IN  IF Channels(filename) # 0
        THEN [w |-> [uploaded EXCEPT !.ids = Append(@, entry),
                                     !.loaded = @ + 1,
                                     !.log = Append(@, <<tag, textureID>>)],
              ret |-> "true"]
        ELSE [w |-> w, ret |-> "false"]

CreateGLTextureOn(w, filename, tag, oob) ==
    LET colorChannels == Channels(filename)
        textureID == NewName(w.tex)
        \* stbi_load succeeded; glGenTextures, glBindTexture, glTexParameteri
        generated == [w EXCEPT !.images = @ + 1,
                               !.tex = Put(@, textureID, "none"),
                               !.units = Put(@, w.active, textureID)]
        \* glTexImage2D, glGenerateMipmap, stbi_image_free, glBindTexture(0)
        uploaded == [generated EXCEPT !.tex[textureID] = filename,
                                      !.images = @ - 1,
                                      !.units[w.active] = 0]
        entry == StoredEntry(w.loaded, [ID |-> textureID, tag |-> tag], oob)
        registered == [uploaded EXCEPT !.ids = Append(@, entry),
                                       !.loaded = @ + 1,
                                       !.log = Append(@, <<tag, textureID>>)]
    IN  IF colorChannels # 0
        THEN IF colorChannels \in {3, 4}
             THEN IF w.loaded >= TextureSlots /\ oob = "crash"
                  THEN [w |-> [uploaded EXCEPT !.crashed = TRUE], ret |-> "none"]
                  ELSE [w |-> registered, ret |-> "true"]
             ELSE [w |-> generated, ret |-> "false"]
        ELSE [w |-> w, ret |-> "false"]

RECURSIVE BindLoop(_, _)
BindLoop(w, i) ==
    IF i < w.loaded
    THEN CHOOSE r \in
           { BindLoop(next, i + 1) :
               next \in { [w EXCEPT !.active = i,
                                    !.units = Put(@, i, w.ids[i + 1].ID)] } } :
           TRUE
    ELSE w

\* A faulty variant of BindGLTexturesOn: glActiveTexture is left out, so every
\* texture is bound to the unit that is active.
BindGLTexturesOn_OneUnit(w) ==
    IF w.loaded > 0
    THEN [w EXCEPT !.units = Put(@, w.active, w.ids[w.loaded].ID)]
    ELSE w

BindGLTexturesOn(w) == BindLoop(w, 0)

RECURSIVE DestroyLoop(_, _, _)
DestroyLoop(w, i, oob) ==
    IF i < w.loaded
    THEN LET name == NewName(w.tex)
             gen == [w EXCEPT !.tex = Put(@, name, "none")]
         IN  IF i >= TextureSlots /\ oob = "crash"
             THEN [gen EXCEPT !.crashed = TRUE]
             ELSE CHOOSE r \in
                    { DestroyLoop(next, i + 1, oob) :
                        next \in { [gen EXCEPT !.ids[i + 1].ID =
                            StoredEntry(i, [ID |-> name, tag |-> ""], oob).ID] } } :
                    TRUE
    ELSE w

DestroyGLTexturesOn(w, oob) == DestroyLoop(w, 0, oob)

RECURSIVE ScanTextureID(_, _, _, _)
ScanTextureID(ids, loaded, index, tag) ==
    IF index < loaded
    THEN IF ids[index + 1].tag = tag
         THEN ids[index + 1].ID
         ELSE ScanTextureID(ids, loaded, index + 1, tag)
    ELSE -1

FindTextureIDIn(ids, loaded, tag) == ScanTextureID(ids, loaded, 0, tag)

FindTextureID(tag) == FindTextureIDIn(m_textureIDs, m_loadedTextures, tag)

RECURSIVE ScanTextureSlot(_, _, _, _)
ScanTextureSlot(ids, loaded, index, tag) ==
    IF index < loaded
    THEN IF ids[index + 1].tag = tag
         THEN index
         ELSE ScanTextureSlot(ids, loaded, index + 1, tag)
    ELSE -1

\* A faulty variant of FindTextureSlotIn: the loop index is returned, which
\* is m_loadedTextures when no entry matches.
FindTextureSlotIn_Index(ids, loaded, tag) ==
    IF ScanTextureSlot(ids, loaded, 0, tag) = -1
    THEN loaded
    ELSE ScanTextureSlot(ids, loaded, 0, tag)

FindTextureSlotIn(ids, loaded, tag) == ScanTextureSlot(ids, loaded, 0, tag)

FindTextureSlot(tag) == FindTextureSlotIn(m_textureIDs, m_loadedTextures, tag)

(***************************************************************************)
(* The operations on the texture registry.                                 *)
(***************************************************************************)

CreateGLTexture(filename, tag, oob) ==
    /\ ~crashed
    /\ LET r == CreateGLTextureOn(World, filename, tag, oob)
       IN  /\ SetWorld(r.w)
           /\ lastCall' = [op |-> "CreateGLTexture",
                           arg |-> <<filename, tag>>, ret |-> r.ret]
    /\ UNCHANGED <<m_pShaderManager, m_objectMaterials, fs, shader>>

BindGLTextures ==
    /\ ~crashed
    /\ SetWorld(BindGLTexturesOn(World))
    /\ lastCall' = [op |-> "BindGLTextures", arg |-> <<>>, ret |-> "none"]
    /\ UNCHANGED <<m_pShaderManager, m_objectMaterials, fs, shader>>

DestroyGLTextures(oob) ==
    /\ ~crashed
    /\ SetWorld(DestroyGLTexturesOn(World, oob))
    /\ lastCall' = [op |-> "DestroyGLTextures", arg |-> <<>>, ret |-> "none"]
    /\ UNCHANGED <<m_pShaderManager, m_objectMaterials, fs, shader>>

\* A faulty variant of LoadLoop: it gives up at the first call of
\* CreateGLTexture that returns false.
RECURSIVE LoadLoop_StopAtFailure(_, _, _)
LoadLoop_StopAtFailure(w, k, oob) ==
    IF k <= Len(SceneTextures) /\ ~w.crashed
    THEN CHOOSE r \in
           { IF bReturn.ret = "true"
             THEN LoadLoop_StopAtFailure(bReturn.w, k + 1, oob)
             ELSE bReturn.w :
               bReturn \in
                 { [w |-> [created.w EXCEPT !.calls =
                              Append(@, [op |-> "CreateGLTexture",
                                         arg |-> SceneTextures[k],
                                         ret |-> created.ret])],
                    ret |-> created.ret] :
                     created \in { CreateGLTextureOn(w, SceneTextures[k][1],
                                                     SceneTextures[k][2],
                                                     oob) } } } :
           TRUE
    ELSE w

RECURSIVE LoadLoop(_, _, _)
LoadLoop(w, k, oob) ==
    IF k <= Len(SceneTextures) /\ ~w.crashed
    THEN CHOOSE r \in
           { LoadLoop(next, k + 1, oob) :
               next \in
                 { [bReturn.w EXCEPT !.calls =
                       Append(@, [op |-> "CreateGLTexture",
                                  arg |-> SceneTextures[k],
                                  ret |-> bReturn.ret])] :
                     bReturn \in { CreateGLTextureOn(w, SceneTextures[k][1],
                                                     SceneTextures[k][2],
                                                     oob) } } } :
           TRUE
    ELSE w

LoadSceneTexturesOn(w, oob) ==
    LET created == LoadLoop(w, 1, oob)
    IN  IF created.crashed
        THEN created
        ELSE [BindGLTexturesOn(created) EXCEPT !.calls =
                 Append(@, [op |-> "BindGLTextures", arg |-> <<>>,
                            ret |-> "none"])]

LoadSceneTextures(oob) ==
    /\ ~crashed
    /\ SetWorld(LoadSceneTexturesOn(World, oob))
    /\ lastCall' = [op |-> "LoadSceneTextures", arg |-> <<>>, ret |-> "none"]
    /\ UNCHANGED <<m_pShaderManager, m_objectMaterials, fs, shader>>

(***************************************************************************)
(* The material registry. Colours and shininess are in thousandths.        *)
(***************************************************************************)

Material(tag, diffuse, specular, shininess) ==
    [tag |-> tag, diffuseColor |-> diffuse, specularColor |-> specular,
     shininess |-> shininess]

SceneMaterials ==
    << Material("wood", <<600, 500, 400>>, <<500, 500, 500>>, 64000),
       Material("glass", <<700, 700, 800>>, <<1000, 1000, 1000>>, 128000),
       Material("metal", <<400, 400, 400>>, <<700, 700, 600>>, 52000),
       Material("leather", <<500, 400, 300>>, <<10, 10, 10>>, 1),
       Material("canvas", <<700, 600, 500>>, <<20, 20, 20>>, 1) >>

\* Materials pushed one at a time: two of them share the tag "wood" and
\* differ in every value.
OtherMaterials ==
    { SceneMaterials[1],
      Material("wood", <<100, 200, 300>>, <<0, 0, 0>>, 8000),
      SceneMaterials[2] }

MaterialTags == {"wood", "glass", "metal", "leather", "canvas", "marble"}

\* The OBJECT_MATERIAL a caller hands to FindMaterial.
CallerMaterial == Material("", <<0, 0, 0>>, <<0, 0, 0>>, 0)

\* A faulty variant of ScanMaterial: the loop does not stop at a match, so
\* the last material with the tag is the one copied.
RECURSIVE ScanMaterial_LastWins(_, _, _, _)
ScanMaterial_LastWins(materials, index, tag, material) ==
    IF index < Len(materials)
    THEN IF materials[index + 1].tag = tag
         THEN ScanMaterial_LastWins(materials, index + 1, tag,
                [material EXCEPT
                   !.diffuseColor = materials[index + 1].diffuseColor,
                   !.specularColor = materials[index + 1].specularColor,
                   !.shininess = materials[index + 1].shininess])
         ELSE ScanMaterial_LastWins(materials, index + 1, tag, material)
    ELSE material

RECURSIVE ScanMaterial(_, _, _, _)
ScanMaterial(materials, index, tag, material) ==
    IF index < Len(materials)
    THEN IF materials[index + 1].tag = tag
         THEN [material EXCEPT
                 !.diffuseColor = materials[index + 1].diffuseColor,
                 !.specularColor = materials[index + 1].specularColor,
                 !.shininess = materials[index + 1].shininess]
         ELSE ScanMaterial(materials, index + 1, tag, material)
    ELSE material

\* The return value and the OBJECT_MATERIAL& as the call leaves it.
FindMaterialIn(materials, tag, material) ==
    IF Len(materials) = 0
    THEN [ret |-> FALSE, material |-> material]
    ELSE [ret |-> TRUE, material |-> ScanMaterial(materials, 0, tag, material)]

FindMaterial(tag, material) == FindMaterialIn(m_objectMaterials, tag, material)

\* m_objectMaterials.push_back(material)
PushMaterial(material) ==
    /\ ~crashed
    /\ m_objectMaterials' = Append(m_objectMaterials, material)
    /\ lastCall' = [op |-> "push_back", arg |-> <<material.tag>>, ret |-> "none"]
    /\ callLog' = <<>>
    /\ UNCHANGED <<m_pShaderManager, m_textureIDs, m_loadedTextures,
                   glTextures, glActiveUnit, glUnits, stbImages, fs, shader,
                   crashed, regLog>>

DefineObjectMaterials ==
    /\ ~crashed
    /\ m_objectMaterials' = m_objectMaterials \o SceneMaterials
    /\ lastCall' = [op |-> "DefineObjectMaterials", arg |-> <<>>, ret |-> "none"]
    /\ callLog' = <<>>
    /\ UNCHANGED <<m_pShaderManager, m_textureIDs, m_loadedTextures,
                   glTextures, glActiveUnit, glUnits, stbImages, fs, shader,
                   crashed, regLog>>

(***************************************************************************)
(* The transform pipeline. A mat4 is the tuple of its four rows; angles    *)
(* are whole quarter turns, so that sines and cosines are integers.        *)
(***************************************************************************)

Identity4 ==
    << <<1, 0, 0, 0>>, <<0, 1, 0, 0>>, <<0, 0, 1, 0>>, <<0, 0, 0, 1>> >>

Zero4 ==
    << <<0, 0, 0, 0>>, <<0, 0, 0, 0>>, <<0, 0, 0, 0>>, <<0, 0, 0, 0>> >>

\* mat4 * mat4
MatMul(A, B) ==
    LET E(i, j) == A[i][1] * B[1][j] + A[i][2] * B[2][j] + A[i][3] * B[3][j]
                       + A[i][4] * B[4][j]
    IN  << <<E(1, 1), E(1, 2), E(1, 3), E(1, 4)>>,
           <<E(2, 1), E(2, 2), E(2, 3), E(2, 4)>>,
           <<E(3, 1), E(3, 2), E(3, 3), E(3, 4)>>,
           <<E(4, 1), E(4, 2), E(4, 3), E(4, 4)>> >>

CosDeg(d) ==
    CASE d % 360 = 0 -> 1 [] d % 360 = 90 -> 0
      [] d % 360 = 180 -> -1 [] d % 360 = 270 -> 0

SinDeg(d) ==
    CASE d % 360 = 0 -> 0 [] d % 360 = 90 -> 1
      [] d % 360 = 180 -> 0 [] d % 360 = 270 -> -1

\* glm::scale(v)
glm_scale(v) ==
    << <<v[1], 0, 0, 0>>, <<0, v[2], 0, 0>>, <<0, 0, v[3], 0>>, <<0, 0, 0, 1>> >>

\* glm::translate(v)
glm_translate(v) ==
    << <<1, 0, 0, v[1]>>, <<0, 1, 0, v[2]>>, <<0, 0, 1, v[3]>>, <<0, 0, 0, 1>> >>

\* glm::rotate(glm::radians(degrees), axis), for a unit axis:
\* cos * I + (1 - cos) * axis * axis^T + sin * [axis]x
glm_rotate(degrees, axis) ==
    LET c == CosDeg(degrees)
        s == SinDeg(degrees)
        cross == << <<0, -axis[3], axis[2]>>,
                    <<axis[3], 0, -axis[1]>>,
                    <<-axis[2], axis[1], 0>> >>
        R(i, j) == (IF i = j THEN c ELSE 0) + (1 - c) * axis[i] * axis[j]
                       + s * cross[i][j]
    IN  << <<R(1, 1), R(1, 2), R(1, 3), 0>>,
           <<R(2, 1), R(2, 2), R(2, 3), 0>>,
           <<R(3, 1), R(3, 2), R(3, 3), 0>>,
           <<0, 0, 0, 1>> >>

\* A faulty variant of ModelMatrix: the product is taken in the opposite
\* order.
ModelMatrix_Reversed(scaleXYZ, Xdeg, Ydeg, Zdeg, positionXYZ) ==
    MatMul(MatMul(MatMul(MatMul(glm_scale(scaleXYZ),
                                glm_rotate(Xdeg, <<1, 0, 0>>)),
                         glm_rotate(Ydeg, <<0, 1, 0>>)),
                  glm_rotate(Zdeg, <<0, 0, 1>>)),
           glm_translate(positionXYZ))

\* modelView of SetTransformations
ModelMatrix(scaleXYZ, Xdeg, Ydeg, Zdeg, positionXYZ) ==
    LET scale == glm_scale(scaleXYZ)
        rotationX == glm_rotate(Xdeg, <<1, 0, 0>>)
        rotationY == glm_rotate(Ydeg, <<0, 1, 0>>)
        rotationZ == glm_rotate(Zdeg, <<0, 0, 1>>)
        translation == glm_translate(positionXYZ)
    IN  MatMul(MatMul(MatMul(MatMul(translation, rotationZ), rotationY),
                      rotationX), scale)

SetTransformations(scaleXYZ, Xdeg, Ydeg, Zdeg, positionXYZ) ==
    /\ ~crashed
    /\ shader' = IF m_pShaderManager # "NULL"
                 THEN [shader EXCEPT !.model =
                         ModelMatrix(scaleXYZ, Xdeg, Ydeg, Zdeg, positionXYZ)]
                 ELSE shader
    /\ lastCall' = [op |-> "SetTransformations",
                    arg |-> <<scaleXYZ, Xdeg, Ydeg, Zdeg, positionXYZ>>,
                    ret |-> "none"]
    /\ callLog' = <<>>
    /\ UNCHANGED <<m_pShaderManager, m_textureIDs, m_loadedTextures,
                   m_objectMaterials, glTextures, glActiveUnit, glUnits,
                   stbImages, fs, crashed, regLog>>

(***************************************************************************)
(* The uniforms of the shader manager. Floats are in thousandths; a bool   *)
(* passed to setIntValue is stored as the int it converts to.              *)
(***************************************************************************)

\* The uniforms before anything is set: GL starts every uniform at zero.
ShaderInit ==
    [model |-> Zero4,
     objectColor |-> <<0, 0, 0, 0>>,
     objectTexture |-> 0,
     bUseTexture |-> 0,
     UVscale |-> <<0, 0>>,
     bUseLighting |-> FALSE,
     directionalLight_direction |-> <<0, 0, 0>>,
     directionalLight_ambient |-> <<0, 0, 0>>,
     directionalLight_diffuse |-> <<0, 0, 0>>,
     directionalLight_specular |-> <<0, 0, 0>>,
     directionalLight_bActive |-> FALSE,
     pointLights0_position |-> <<0, 0, 0>>,
     pointLights0_ambient |-> <<0, 0, 0>>,
     pointLights0_diffuse |-> <<0, 0, 0>>,
     pointLights0_specular |-> <<0, 0, 0>>,
     pointLights0_bActive |-> FALSE]

\* Each setter as a function of the uniforms `sh` it is given.
SetShaderColorOn(sh, redColorValue, greenColorValue, blueColorValue, alphaValue) ==
    LET currentColor == <<redColorValue, greenColorValue, blueColorValue,
                          alphaValue>>
    IN  IF m_pShaderManager # "NULL"
        THEN [sh EXCEPT !.bUseTexture = 0, !.objectColor = currentColor]
        ELSE sh

SetShaderTextureOn(sh, textureTag) ==
    IF m_pShaderManager # "NULL"
    THEN LET textureID == FindTextureSlot(textureTag)
         IN  [sh EXCEPT !.bUseTexture = 1, !.objectTexture = textureID]
    ELSE sh

SetTextureUVScaleOn(sh, u, v) ==
    IF m_pShaderManager # "NULL"
    THEN [sh EXCEPT !.UVscale = <<u, v>>]
    ELSE sh

\* The body of SetShaderMaterial is that of SetShaderTexture: it looks its
\* tag up among the textures and writes the texture uniforms.
SetShaderMaterialOn(sh, textureTag) ==
    IF m_pShaderManager # "NULL"
    THEN LET textureID == FindTextureSlot(textureTag)
         IN  [sh EXCEPT !.bUseTexture = 1, !.objectTexture = textureID]
    ELSE sh

\* The variables no setter and no draw touches.
SceneUnchanged ==
    UNCHANGED <<m_pShaderManager, m_textureIDs, m_loadedTextures,
                m_objectMaterials, glTextures, glActiveUnit, glUnits,
                stbImages, fs, crashed, regLog>>

SetShaderColor(redColorValue, greenColorValue, blueColorValue, alphaValue) ==
    /\ ~crashed
    /\ shader' = SetShaderColorOn(shader, redColorValue, greenColorValue,
                                  blueColorValue, alphaValue)
    /\ lastCall' = [op |-> "SetShaderColor",
                    arg |-> <<redColorValue, greenColorValue, blueColorValue,
                              alphaValue>>,
                    ret |-> "none"]
    /\ callLog' = <<>>
    /\ SceneUnchanged

SetShaderTexture(textureTag) ==
    /\ ~crashed
    /\ shader' = SetShaderTextureOn(shader, textureTag)
    /\ lastCall' = [op |-> "SetShaderTexture", arg |-> <<textureTag>>,
                    ret |-> "none"]
    /\ callLog' = <<>>
    /\ SceneUnchanged

SetTextureUVScale(u, v) ==
    /\ ~crashed
    /\ shader' = SetTextureUVScaleOn(shader, u, v)
    /\ lastCall' = [op |-> "SetTextureUVScale", arg |-> <<u, v>>,
                    ret |-> "none"]
    /\ callLog' = <<>>
    /\ SceneUnchanged

SetShaderMaterial(textureTag) ==
    /\ ~crashed
    /\ shader' = SetShaderMaterialOn(shader, textureTag)
    /\ lastCall' = [op |-> "SetShaderMaterial", arg |-> <<textureTag>>,
                    ret |-> "none"]
    /\ callLog' = <<>>
    /\ SceneUnchanged

\* The draw methods of m_basicMeshes, by name. They belong to ShapeMeshes,
\* which draws with the uniforms as they are and sets none.
DrawMeshes ==
    {"DrawPlaneMesh", "DrawCylinderMesh", "DrawTorusMesh", "DrawBoxMesh",
     "DrawConeMesh", "DrawTaperedCylinderMesh"}

\* m_basicMeshes->Draw...Mesh()
DrawMesh(mesh) ==
    /\ ~crashed
    /\ lastCall' = [op |-> mesh, arg |-> <<>>, ret |-> "none"]
    /\ callLog' = <<>>
    /\ UNCHANGED shader
    /\ SceneUnchanged

(***************************************************************************)
(* The lights. Calling a method of m_pShaderManager when it is NULL is not *)
(* defined: the process dies, or the call returns having set nothing.      *)
(***************************************************************************)

NullOutcomes == {"crash", "survived"}

\* The uniforms, whether the process died, and whether NULL was dereferenced.
SetupSceneLightsOn(sh, null) ==
    IF m_pShaderManager # "NULL"
    THEN [shader |->
            [sh EXCEPT
               !.bUseLighting = TRUE,
               !.directionalLight_direction = <<-300, -1000, -200>>,
               !.directionalLight_ambient = <<400, 400, 400>>,
               !.directionalLight_diffuse = <<600, 600, 600>>,
               !.directionalLight_specular = <<300, 300, 300>>,
               !.directionalLight_bActive = TRUE,
               !.pointLights0_position = <<2000, 3000, 2000>>,
               !.pointLights0_ambient = <<200, 200, 200>>,
               !.pointLights0_diffuse = <<1000, 800, 700>>,
               !.pointLights0_specular = <<900, 800, 700>>,
               !.pointLights0_bActive = TRUE],
          crashed |-> FALSE,
          ret |-> "none"]
    ELSE [shader |-> sh,
          crashed |-> (null = "crash"),
          ret |-> "NULL dereferenced"]

SetupSceneLights(null) ==
    /\ ~crashed
    /\ LET lights == SetupSceneLightsOn(shader, null)
       IN  /\ shader' = lights.shader
           /\ crashed' = lights.crashed
           /\ lastCall' = [op |-> "SetupSceneLights", arg |-> <<>>,
                           ret |-> lights.ret]
    /\ callLog' = <<>>
    /\ UNCHANGED <<m_pShaderManager, m_textureIDs, m_loadedTextures,
                   m_objectMaterials, glTextures, glActiveUnit, glUnits,
                   stbImages, fs, regLog>>

(***************************************************************************)
(* PrepareScene and RenderScene.                                           *)
(***************************************************************************)

\* A call as callLog records it.
Call(op, arg) == [op |-> op, arg |-> arg, ret |-> "none"]

\* The meshes PrepareScene loads, in its order.
LoadMeshes ==
    << Call("LoadPlaneMesh", <<>>), Call("LoadCylinderMesh", <<>>),
       Call("LoadTorusMesh", <<>>), Call("LoadBoxMesh", <<>>),
       Call("LoadConeMesh", <<>>), Call("LoadSphereMesh", <<>>),
       Call("LoadTaperedCylinderMesh", <<>>) >>

PrepareScene(oob, null) ==
    /\ ~crashed
    /\ LET w == LoadSceneTexturesOn(World, oob)
           lights == SetupSceneLightsOn(shader, null)
       IN  IF w.crashed
           THEN /\ SetWorld(w)
                /\ lastCall' = [op |-> "PrepareScene", arg |-> <<>>,
                                ret |-> "none"]
                /\ UNCHANGED <<m_objectMaterials, shader>>
           ELSE /\ SetWorld(
                     [w EXCEPT
                        !.crashed = lights.crashed,
                        !.calls = @ \o << Call("DefineObjectMaterials", <<>>),
                                          [Call("SetupSceneLights", <<>>)
                                              EXCEPT !.ret = lights.ret] >>
                                    \o (IF lights.crashed THEN <<>>
                                        ELSE LoadMeshes)])
                /\ m_objectMaterials' = m_objectMaterials \o SceneMaterials
                /\ shader' = lights.shader
                /\ lastCall' = [op |-> "PrepareScene", arg |-> <<>>,
                                ret |-> lights.ret]
    /\ UNCHANGED <<m_pShaderManager, fs>>

\* The calls of RenderScene, in its order, with their literal arguments.
SceneScript ==
    << Call("SetTransformations", << <<20000, 1000, 10000>>, 0, 0, 0, <<0, 0, 0>> >>),
       Call("SetShaderTexture", <<"wood">>),
       Call("SetTextureUVScale", <<1000, 1000>>),
       Call("SetShaderMaterial", <<"wood">>),
       Call("DrawPlaneMesh", <<>>),
       Call("SetTransformations", << <<20000, 1000, 10000>>, 0, 0, 0, <<0, 0, 0>> >>),
       Call("SetShaderColor", <<1000, 1000, 1000, 1000>>),
       Call("DrawPlaneMesh", <<>>),
       Call("SetTransformations", << <<1000, 2000, 1000>>, 0, 0, 0, <<5000, 0, 3000>> >>),
       Call("SetShaderTexture", <<"glasscup">>),
       Call("SetTextureUVScale", <<1000, 1000>>),
       Call("SetShaderMaterial", <<"glass">>),
       Call("DrawCylinderMesh", <<>>),
       Call("SetTransformations", << <<800, 800, 1000>>, 0, 0, 0, <<6000, 1000, 3500>> >>),
       Call("SetShaderTexture", <<"glasscup">>),
       Call("SetTextureUVScale", <<5000, 1000>>),
       Call("SetShaderMaterial", <<"glass">>),
       Call("DrawTorusMesh", <<>>),
       Call("SetTransformations", << <<950, 50, 950>>, 0, 0, 0, <<5000, 2000, 3000>> >>),
       Call("SetShaderTexture", <<"coffee">>),
       Call("SetTextureUVScale", <<1000, 1000>>),
       Call("DrawCylinderMesh", <<>>),
       Call("SetTransformations", << <<4000, 0, 2500>>, 90, 0, 0, <<-1000, 2000, -5500>> >>),
       Call("SetShaderTexture", <<"login">>),
       Call("SetTextureUVScale", <<1000, 1000>>),
       Call("DrawPlaneMesh", <<>>),
       Call("SetTransformations", << <<8100, 500, 6000>>, 0, 0, 0, <<-1000, 0, -2500>> >>),
       Call("SetShaderTexture", <<"keyboard">>),
       Call("SetTextureUVScale", <<1000, 1000>>),
       Call("DrawBoxMesh", <<>>),
       Call("SetTransformations", << <<8100, 490, 6100>>, 0, 0, 0, <<-1000, 0, -2500>> >>),
       Call("SetShaderTexture", <<"gold">>),
       Call("SetTextureUVScale", <<1000, 1000>>),
       Call("SetShaderMaterial", <<"metal">>),
       Call("DrawBoxMesh", <<>>),
       Call("SetTransformations", << <<3000, 1000, 2000>>, 0, 0, 0, <<-10000, 0, -3000>> >>),
       Call("SetShaderTexture", <<"gold">>),
       Call("SetTextureUVScale", <<1000, 1000>>),
       Call("DrawBoxMesh", <<>>),
       Call("SetShaderMaterial", <<"metal">>),
       Call("SetTransformations", << <<500, 7000, 500>>, 0, 90, 0, <<-10000, 0, -3000>> >>),
       Call("SetShaderTexture", <<"gold">>),
       Call("SetTextureUVScale", <<1000, 1000>>),
       Call("SetShaderMaterial", <<"metal">>),
       Call("DrawCylinderMesh", <<>>),
       Call("SetTransformations", << <<3000, 3000, 1000>>, 0, 0, 0, <<-10000, 6000, -3000>> >>),
       Call("SetShaderTexture", <<"lamp">>),
       Call("SetTextureUVScale", <<1000, 1000>>),
       Call("SetShaderMaterial", <<"canvas">>),
       Call("DrawConeMesh", <<>>),
       Call("SetTransformations", << <<200, 1000, 200>>, 90, 130, 0, <<-6000, 500, 4000>> >>),
       Call("SetShaderTexture", <<"pen">>),
       Call("SetTextureUVScale", <<1000, 1000>>),
       Call("SetShaderMaterial", <<"metal">>),
       Call("DrawCylinderMesh", <<>>),
       Call("SetTransformations", << <<160, 200, 160>>, 270, 130, 0, <<-6000, 500, 4000>> >>),
       Call("SetShaderTexture", <<"aluminum">>),
       Call("SetTextureUVScale", <<1000, 1000>>),
       Call("SetShaderMaterial", <<"metal">>),
       Call("DrawTaperedCylinderMesh", <<>>),
       Call("SetTransformations", << <<4000, 2000, 300>>, 270, 130, 0, <<-8000, 500, 4000>> >>),
       Call("SetShaderTexture", <<"leather">>),
       Call("SetTextureUVScale", <<1000, 1000>>),
       Call("SetShaderMaterial", <<"leather">>),
       Call("DrawBoxMesh", <<>>),
       Call("SetTransformations", << <<4000, 1980, 200>>, 270, 130, 0, <<-7930, 500, 4000>> >>),
       Call("SetShaderColor", <<1000, 1000, 1000, 1000>>),
       Call("DrawBoxMesh", <<>>) >>

\* The matrix SetTransformations builds from arguments of RenderScene. Its
\* entries are not whole numbers (scales such as 0.95, a rotation by 130
\* degrees), so the product is kept as its five factors, in the order the
\* code multiplies them.
SceneModel(scaleXYZ, Xdeg, Ydeg, Zdeg, positionXYZ) ==
    [translation |-> positionXYZ, rotationZ |-> Zdeg, rotationY |-> Ydeg,
     rotationX |-> Xdeg, scale |-> scaleXYZ]

SetSceneTransformationsOn(sh, scaleXYZ, Xdeg, Ydeg, Zdeg, positionXYZ) ==
    IF m_pShaderManager # "NULL"
    THEN [sh EXCEPT !.model =
            SceneModel(scaleXYZ, Xdeg, Ydeg, Zdeg, positionXYZ)]
    ELSE sh

\* One call of RenderScene: the uniforms after it, and the call logged with
\* the uniforms it leaves (those a draw draws with).
RenderStep(st, call) ==
    LET sh == st.shader
        a == call.arg
        after ==
          CASE call.op = "SetTransformations" ->
                 SetSceneTransformationsOn(sh, a[1], a[2], a[3], a[4], a[5])
            [] call.op = "SetShaderColor" ->
                 SetShaderColorOn(sh, a[1], a[2], a[3], a[4])
            [] call.op = "SetShaderTexture" -> SetShaderTextureOn(sh, a[1])
            [] call.op = "SetTextureUVScale" ->
                 SetTextureUVScaleOn(sh, a[1], a[2])
            [] call.op = "SetShaderMaterial" -> SetShaderMaterialOn(sh, a[1])
            [] call.op \in DrawMeshes -> sh
    IN  CHOOSE next \in
          { [shader |-> uniforms,
             calls |-> Append(st.calls,
                              [op |-> call.op, arg |-> a, ret |-> "none",
                               shader |-> uniforms])] :
              uniforms \in { after } } : TRUE

RECURSIVE RenderLoop(_, _)
RenderLoop(st, k) ==
    IF k <= Len(SceneScript)
    THEN CHOOSE r \in
           { RenderLoop(next, k + 1) :
               next \in { RenderStep(st, SceneScript[k]) } } : TRUE
    ELSE st

RenderSceneOn(sh) == RenderLoop([shader |-> sh, calls |-> <<>>], 1)

RenderScene ==
    /\ ~crashed
    /\ LET st == RenderSceneOn(shader)
       IN  /\ shader' = st.shader
           /\ callLog' = st.calls
    /\ lastCall' = [op |-> "RenderScene", arg |-> <<>>, ret |-> "none"]
    /\ SceneUnchanged

Scales == {<<1, 1, 1>>, <<2, 3, 4>>}

Degrees == {0, 90, 180, 270}

Positions == {<<0, 0, 0>>, <<5, 0, 0>>, <<-1, 2, -5>>}

(***************************************************************************)
(* Specifications.                                                         *)
(***************************************************************************)

\* The state the constructor leaves. The constructor assigns the shader
\* manager pointer and the meshes only; the registries are taken to start
\* empty (m_loadedTextures 0, no material), as every method of the file
\* presupposes. The model uniform starts as GL starts a uniform, all zero.
Init ==
    /\ m_pShaderManager \in {"NULL", "shader"}
    /\ m_textureIDs = <<>>
    /\ m_loadedTextures = 0
    /\ m_objectMaterials = <<>>
    /\ glTextures = <<>>
    /\ glActiveUnit = 0
    /\ glUnits = <<>>
    /\ stbImages = 0
    /\ fs = GoodFs
    /\ shader = ShaderInit
    /\ crashed = FALSE
    /\ regLog = <<>>
    /\ lastCall = [op |-> "none", arg |-> <<>>, ret |-> "none"]
    /\ callLog = <<>>

\* The state after LoadSceneTextures has loaded all ten scene textures.
InitLoaded ==
    /\ m_pShaderManager \in {"NULL", "shader"}
    /\ m_objectMaterials = <<>>
    /\ fs = GoodFs
    /\ shader = ShaderInit
    /\ lastCall = [op |-> "LoadSceneTextures", arg |-> <<>>, ret |-> "none"]
    /\ LET w == LoadSceneTexturesOn(
                  [ids |-> <<>>, loaded |-> 0, tex |-> <<>>, active |-> 0,
                   units |-> <<>>, images |-> 0, crashed |-> FALSE,
                   log |-> <<>>, calls |-> <<>>], "kept")
       IN  /\ m_textureIDs = w.ids
           /\ m_loadedTextures = w.loaded
           /\ glTextures = w.tex
           /\ glActiveUnit = w.active
           /\ glUnits = w.units
           /\ stbImages = w.images
           /\ crashed = w.crashed
           /\ regLog = w.log
           /\ callLog = w.calls

Names == Cardinality(DOMAIN glTextures)

\* The texture registry, driven by arbitrary calls.
Next ==
    \/ \E filename \in Files, tag \in Tags, oob \in OobOutcomes :
          Names < MaxNames /\ CreateGLTexture(filename, tag, oob)
    \/ BindGLTextures
    \/ \E oob \in OobOutcomes :
          Names + m_loadedTextures <= MaxNames /\ DestroyGLTextures(oob)

Spec == Init /\ [][Next]_vars

\* The texture registry filled past the end of m_textureIDs.
NextCap ==
    \/ \E tag \in CapTags, oob \in OobOutcomes :
          Names < MaxCapNames /\ CreateGLTexture("rgb.jpg", tag, oob)
    \/ BindGLTextures

SpecCap == InitLoaded /\ [][NextCap]_vars

\* The material registry.
NextMaterials ==
    \/ \E material \in OtherMaterials :
          Len(m_objectMaterials) < MaxMaterials /\ PushMaterial(material)
    \/ Len(m_objectMaterials) + Len(SceneMaterials) <= MaxMaterials
          /\ DefineObjectMaterials

SpecMaterials == Init /\ [][NextMaterials]_vars

\* Both registries, with duplicate tags in each.
NextRegistries ==
    \/ \E tag \in Tags, oob \in OobOutcomes :
          Names < MaxRegNames /\ CreateGLTexture("rgb.jpg", tag, oob)
    \/ \E oob \in OobOutcomes :
          Names + m_loadedTextures <= MaxRegNames /\ DestroyGLTextures(oob)
    \/ \E material \in OtherMaterials :
          Len(m_objectMaterials) < MaxRegMaterials /\ PushMaterial(material)

SpecRegistries == Init /\ [][NextRegistries]_vars

\* The transform pipeline.
NextTransform ==
    \E scaleXYZ \in Scales, Xdeg \in Degrees, Ydeg \in Degrees,
       Zdeg \in Degrees, positionXYZ \in Positions :
          SetTransformations(scaleXYZ, Xdeg, Ydeg, Zdeg, positionXYZ)

SpecTransform == Init /\ [][NextTransform]_vars

\* Colours, tags and UV scales handed to the setters: those of RenderScene,
\* and a tag that no texture carries.
Colors == {<<1000, 1000, 1000, 1000>>, <<500, 500, 500, 1000>>}

TextureTags == {"wood", "glasscup", "marble"}

ShaderMaterialTags == {"wood", "glass", "metal"}

UVScales == {<<1000, 1000>>, <<5000, 1000>>}

\* The setters and the draws in any order, once the scene textures are
\* loaded.
NextShader ==
    \/ \E scaleXYZ \in Scales, Xdeg \in {0, 90}, positionXYZ \in Positions :
          SetTransformations(scaleXYZ, Xdeg, 0, 0, positionXYZ)
    \/ \E color \in Colors :
          SetShaderColor(color[1], color[2], color[3], color[4])
    \/ \E textureTag \in TextureTags : SetShaderTexture(textureTag)
    \/ \E uv \in UVScales : SetTextureUVScale(uv[1], uv[2])
    \/ \E textureTag \in ShaderMaterialTags : SetShaderMaterial(textureTag)
    \/ \E mesh \in DrawMeshes : DrawMesh(mesh)

SpecShader == InitLoaded /\ [][NextShader]_vars

\* The file systems in which at most `bad` of the scene files fail to load,
\* each for being unreadable (0) or a 1-channel image.
FileSystems(bad) ==
    { [f \in Files \cup SceneFiles |-> IF f \in B THEN kind[f] ELSE GoodFs[f]] :
        <<B, kind>> \in
          UNION { {B1} \X [B1 -> {0, 1}] :
                    B1 \in {B2 \in SUBSET SceneFiles : Cardinality(B2) <= bad} } }

\* The state the constructor leaves, with some of the scene files failing.
InitScene ==
    /\ m_pShaderManager \in {"NULL", "shader"}
    /\ m_textureIDs = <<>>
    /\ m_loadedTextures = 0
    /\ m_objectMaterials = <<>>
    /\ glTextures = <<>>
    /\ glActiveUnit = 0
    /\ glUnits = <<>>
    /\ stbImages = 0
    /\ fs \in FileSystems(MaxBadFiles)
    /\ shader = ShaderInit
    /\ crashed = FALSE
    /\ regLog = <<>>
    /\ lastCall = [op |-> "none", arg |-> <<>>, ret |-> "none"]
    /\ callLog = <<>>

\* The scene as the application drives it: PrepareScene while the texture
\* array has room for the ten scene textures, RenderScene for every frame.
NextScene ==
    \/ \E oob \in OobOutcomes, null \in NullOutcomes :
          /\ m_loadedTextures + Len(SceneTextures) <= TextureSlots
          /\ PrepareScene(oob, null)
    \/ \E null \in NullOutcomes : SetupSceneLights(null)
    \/ RenderScene

SpecScene == InitScene /\ [][NextScene]_vars

\* The state the constructor leaves, with any of the scene files failing.
InitLoad ==
    /\ m_pShaderManager \in {"NULL", "shader"}
    /\ m_textureIDs = <<>>
    /\ m_loadedTextures = 0
    /\ m_objectMaterials = <<>>
    /\ glTextures = <<>>
    /\ glActiveUnit = 0
    /\ glUnits = <<>>
    /\ stbImages = 0
    /\ fs \in FileSystems(Len(SceneTextures))
    /\ shader = ShaderInit
    /\ crashed = FALSE
    /\ regLog = <<>>
    /\ lastCall = [op |-> "none", arg |-> <<>>, ret |-> "none"]
    /\ callLog = <<>>

\* LoadSceneTextures on the registry as the constructor left it.
NextLoad ==
    \E oob \in OobOutcomes :
        /\ m_loadedTextures = 0
        /\ Names = 0
        /\ LoadSceneTextures(oob)

SpecLoad == InitLoad /\ [][NextLoad]_vars

(***************************************************************************)
(* Properties.                                                             *)
(***************************************************************************)

\* The tags of the calls of CreateGLTexture that returned true.
RegisteredTags == {regLog[k][1] : k \in 1..Len(regLog)}

\* The number of successful registrations before the first one of `tag`.
FirstRegistration(tag) ==
    (CHOOSE k \in 1..Len(regLog) :
        /\ regLog[k][1] = tag
        /\ \A j \in 1..(k - 1) : regLog[j][1] # tag) - 1

\* The first slot of the registry that holds `tag`.
FirstSlot(tag) ==
    (CHOOSE i \in 1..m_loadedTextures :
        /\ m_textureIDs[i].tag = tag
        /\ \A j \in 1..(i - 1) : m_textureIDs[j].tag # tag) - 1

SlotTags == {m_textureIDs[i].tag : i \in 1..m_loadedTextures}

\* C1: after any sequence of CreateGLTexture calls, FindTextureSlot of every
\* tag whose registration succeeded is the number of successful
\* registrations before the first successful registration of that tag (a
\* number fixed once the tag is registered, and different for different
\* tags).
C1_SlotIsRegistrationOrder ==
    \A tag \in RegisteredTags : FindTextureSlot(tag) = FirstRegistration(tag)

\* C2: a CreateGLTexture call on a file that does not decode, or decodes to
\* a channel count other than 3 and 4, returns false and leaves
\* m_loadedTextures, every registry entry and every FindTextureSlot result
\* as they were.
C2_FailedCreateLeavesRegistry ==
    [][(lastCall'.op = "CreateGLTexture"
          /\ Channels(lastCall'.arg[1]) \notin {3, 4})
       => /\ lastCall'.ret = "false"
          /\ m_loadedTextures' = m_loadedTextures
          /\ m_textureIDs' = m_textureIDs
          /\ regLog' = regLog
          /\ \A tag \in LookupTags :
                FindTextureSlotIn(m_textureIDs', m_loadedTextures', tag)
                    = FindTextureSlot(tag)]_vars

\* C2 witness: a 1-channel image was rejected for a tag that is registered,
\* and the tag still resolves to its slot.
C2_Witness ==
    /\ lastCall.op = "CreateGLTexture"
    /\ lastCall.arg = <<"gray.png", "wood">>
    /\ lastCall.ret = "false"
    /\ m_loadedTextures = 2
    /\ FindTextureSlot("wood") = 1

\* C3: for every tag that no registered texture entry carries,
\* FindTextureSlot and FindTextureID both return -1; so too when the
\* registry is empty.
C3_UnregisteredNotFound ==
    \A tag \in LookupTags :
        tag \notin RegisteredTags \cup SlotTags
            => FindTextureSlot(tag) = -1 /\ FindTextureID(tag) = -1

\* C3 witness: a registry of two entries, neither of them "marble".
C3_Witness ==
    /\ m_loadedTextures = 2
    /\ "marble" \notin SlotTags
    /\ FindTextureSlot("marble") = -1
    /\ FindTextureID("marble") = -1

\* C6: a registration beyond the 16th fails cleanly: m_loadedTextures never
\* exceeds 16, no registry slot of index 16 or more is written, the process
\* goes on, and BindGLTextures binds no unit of index 16 or more.
C6_LimitRespected ==
    /\ m_loadedTextures <= TextureSlots
    /\ Len(m_textureIDs) <= TextureSlots
    /\ ~crashed
    /\ \A u \in DOMAIN glUnits : u < TextureSlots

\* C9: a CreateGLTexture call on an image whose channel count is neither 3
\* nor 4 returns false, generates no GL texture object and leaves no decoded
\* image buffer allocated.
C9_RejectedImageCreatesNothing ==
    [][(lastCall'.op = "CreateGLTexture"
          /\ Channels(lastCall'.arg[1]) \notin {0, 3, 4})
       => /\ lastCall'.ret = "false"
          /\ DOMAIN glTextures' = DOMAIN glTextures
          /\ stbImages' = stbImages]_vars

\* C10: DestroyGLTextures frees the texture of every used slot: after it, no
\* texture object that a successful CreateGLTexture registered is still
\* allocated, and no texture object has been added.
C10_DestroyFreesTextures ==
    [][lastCall'.op = "DestroyGLTextures"
       => /\ \A k \in 1..Len(regLog) : regLog[k][2] \notin DOMAIN glTextures'
          /\ DOMAIN glTextures' \subseteq DOMAIN glTextures]_vars

\* C4: FindMaterial returns true exactly when some defined material has the
\* tag, whether the registry is empty or not.
C4_FoundIffDefined ==
    \A tag \in MaterialTags :
        FindMaterial(tag, CallerMaterial).ret
            = (\E i \in 1..Len(m_objectMaterials) :
                   m_objectMaterials[i].tag = tag)

\* C5 as stated: BindGLTextures binds unit i to the ID of entry i for every
\* i below m_loadedTextures and binds no other unit, and the unit of every
\* entry is what FindTextureSlot returns for the tag of that entry.
C5_UnitIsSlotOfTag ==
    [][lastCall'.op = "BindGLTextures"
       => /\ \A i \in 0..(m_loadedTextures' - 1) :
                /\ UnitBinding(glUnits', i) = m_textureIDs'[i + 1].ID
                /\ FindTextureSlotIn(m_textureIDs', m_loadedTextures',
                                     m_textureIDs'[i + 1].tag) = i
          /\ \A u \in DOMAIN glUnits' :
                u >= m_loadedTextures'
                    => UnitBinding(glUnits', u) = UnitBinding(glUnits, u)]_vars

\* C5, amended: BindGLTextures binds unit i to the ID of entry i for every
\* i below m_loadedTextures and binds no other unit; the unit of the first
\* entry that carries a tag is what FindTextureSlot returns for that tag.
C5_UnitIsSlotOfFirstEntry ==
    [][lastCall'.op = "BindGLTextures"
       => /\ \A i \in 0..(m_loadedTextures' - 1) :
                /\ UnitBinding(glUnits', i) = m_textureIDs'[i + 1].ID
                /\ (\A j \in 0..(i - 1) :
                       m_textureIDs'[j + 1].tag # m_textureIDs'[i + 1].tag)
                    => FindTextureSlotIn(m_textureIDs', m_loadedTextures',
                                         m_textureIDs'[i + 1].tag) = i
          /\ \A u \in DOMAIN glUnits' :
                u >= m_loadedTextures'
                    => UnitBinding(glUnits', u) = UnitBinding(glUnits, u)]_vars

\* C5 witness: "wood" then "glasscup" were registered and bound: unit 0
\* holds the texture of "wood" and unit 1 that of "glasscup".
C5_Witness ==
    /\ lastCall.op = "BindGLTextures"
    /\ regLog = << <<"wood", 1>>, <<"glasscup", 2>> >>
    /\ UnitBinding(glUnits, 0) = 1 /\ FindTextureSlot("wood") = 0
    /\ UnitBinding(glUnits, 1) = 2 /\ FindTextureSlot("glasscup") = 1

\* C7: both registries accept duplicate tags and a lookup resolves to the
\* first entry inserted with the tag: FindMaterial yields the diffuse
\* colour, specular colour and shininess of the first material with the tag,
\* FindTextureSlot and FindTextureID the slot and the ID of the first
\* texture entry with the tag.
C7_FirstInsertedWins ==
    /\ \A tag \in MaterialTags :
          \A i \in 1..Len(m_objectMaterials) :
              (/\ m_objectMaterials[i].tag = tag
               /\ \A j \in 1..(i - 1) : m_objectMaterials[j].tag # tag)
              => FindMaterial(tag, CallerMaterial)
                   = [ret |-> TRUE,
                      material |->
                        [CallerMaterial EXCEPT
                           !.diffuseColor = m_objectMaterials[i].diffuseColor,
                           !.specularColor = m_objectMaterials[i].specularColor,
                           !.shininess = m_objectMaterials[i].shininess]]
    /\ \A tag \in SlotTags :
          /\ FindTextureSlot(tag) = FirstSlot(tag)
          /\ FindTextureID(tag) = m_textureIDs[FirstSlot(tag) + 1].ID

\* C7 witness: two materials "wood" of different values and two textures
\* "wood"; the lookups give the first of each.
C7_Witness ==
    /\ Len(m_objectMaterials) = 2
    /\ m_objectMaterials[1] = SceneMaterials[1]
    /\ m_objectMaterials[2].tag = "wood"
    /\ m_objectMaterials[2].shininess # m_objectMaterials[1].shininess
    /\ FindMaterial("wood", CallerMaterial).material.shininess = 64000
    /\ regLog = << <<"wood", 1>>, <<"wood", 2>> >>
    /\ FindTextureSlot("wood") = 0
    /\ FindTextureID("wood") = 1

\* The image of a point under a mat4.
PointImage(M, p) ==
    << M[1][1] * p[1] + M[1][2] * p[2] + M[1][3] * p[3] + M[1][4],
       M[2][1] * p[1] + M[2][2] * p[2] + M[2][3] * p[3] + M[2][4],
       M[3][1] * p[1] + M[3][2] * p[2] + M[3][3] * p[3] + M[3][4] >>

ScalePoint(v, p) == <<v[1] * p[1], v[2] * p[2], v[3] * p[3]>>

RotateXPoint(d, p) ==
    <<p[1], p[2] * CosDeg(d) - p[3] * SinDeg(d),
      p[2] * SinDeg(d) + p[3] * CosDeg(d)>>

RotateYPoint(d, p) ==
    <<p[1] * CosDeg(d) + p[3] * SinDeg(d), p[2],
      p[3] * CosDeg(d) - p[1] * SinDeg(d)>>

RotateZPoint(d, p) ==
    <<p[1] * CosDeg(d) - p[2] * SinDeg(d),
      p[1] * SinDeg(d) + p[2] * CosDeg(d), p[3]>>

TranslatePoint(v, p) == <<p[1] + v[1], p[2] + v[2], p[3] + v[3]>>

\* The origin, the three unit points and a point off every axis: an affine
\* map is fixed by its values on the first four.
Probes == {<<0, 0, 0>>, <<1, 0, 0>>, <<0, 1, 0>>, <<0, 0, 1>>, <<1, 2, 3>>}

\* C8: the matrix SetTransformations puts in the model slot scales a point,
\* then rotates it about X, then about Y, then about Z, then translates it;
\* for scale (1,1,1), no rotation and position (0,0,0) it is the identity.
C8_ModelMatrixOrder ==
    (lastCall.op = "SetTransformations" /\ m_pShaderManager # "NULL")
    => LET scaleXYZ == lastCall.arg[1]
           Xdeg == lastCall.arg[2]
           Ydeg == lastCall.arg[3]
           Zdeg == lastCall.arg[4]
           positionXYZ == lastCall.arg[5]
       IN  /\ shader.model[4] = <<0, 0, 0, 1>>
           /\ \A p \in Probes :
                 PointImage(shader.model, p)
                   = TranslatePoint(positionXYZ,
                       RotateZPoint(Zdeg,
                         RotateYPoint(Ydeg,
                           RotateXPoint(Xdeg, ScalePoint(scaleXYZ, p)))))
           /\ lastCall.arg = << <<1, 1, 1>>, 0, 0, 0, <<0, 0, 0>> >>
                 => shader.model = Identity4

\* C8 witness: a quarter turn about Y and a translation along X take the
\* point (0,0,1) to (1,0,0) and then to (6,0,0), not to (1,0,-5).
C8_Witness ==
    /\ m_pShaderManager # "NULL"
    /\ lastCall.op = "SetTransformations"
    /\ lastCall.arg = << <<1, 1, 1>>, 0, 90, 0, <<5, 0, 0>> >>
    /\ PointImage(shader.model, <<0, 0, 1>>) = <<6, 0, 0>>

\* The uniforms a call is said to own: SetTransformations the model matrix,
\* SetTextureUVScale the UV scale, SetShaderColor the use-texture flag and
\* the colour, SetShaderTexture the use-texture flag and the sampler;
\* SetShaderMaterial the material selection, which is none of the texture
\* uniforms, and a draw nothing.
OwnSlots(op) ==
    CASE op = "SetTransformations" -> {"model"}
      [] op = "SetTextureUVScale" -> {"UVscale"}
      [] op = "SetShaderColor" -> {"bUseTexture", "objectColor"}
      [] op = "SetShaderTexture" -> {"bUseTexture", "objectTexture"}
      [] OTHER -> {}

\* C11: every setter changes only the uniforms it owns and every draw
\* changes none, so that a uniform keeps the value of the last setter that
\* owns it.
C11_SetterWritesOwnSlots ==
    [][\A slot \in DOMAIN shader :
          shader'[slot] # shader[slot] => slot \in OwnSlots(lastCall'.op)]_vars

\* Every scene texture has a call of CreateGLTexture that returned true.
AllSceneTexturesRegistered ==
    \A k \in DOMAIN SceneTextures : SceneTextures[k][2] \in RegisteredTags

\* The calls of RenderScene that belong to the object drawn by call i: those
\* from the last SetTransformations before it.
ObjectCalls(i) ==
    {j \in 1..(i - 1) :
        \A t \in j..(i - 1) : callLog[t].op # "SetTransformations"}
      \cup {j \in 1..(i - 1) :
              /\ callLog[j].op = "SetTransformations"
              /\ \A t \in (j + 1)..(i - 1) :
                    callLog[t].op # "SetTransformations"}

\* The draws of the last RenderScene that were issued with the use-texture
\* flag set.
TexturedDraws ==
    IF lastCall.op = "RenderScene"
    THEN {i \in DOMAIN callLog :
            callLog[i].op \in DrawMeshes /\ callLog[i].shader.bUseTexture = 1}
    ELSE {}

\* C12: in RenderScene with all ten scene textures registered, every draw
\* issued with the use-texture flag set has the sampler at FindTextureSlot of
\* the tag its object gave to SetShaderTexture, an index in
\* [0, m_loadedTextures) and not -1.
C12_SamplerIsSlotOfSelectedTexture ==
    AllSceneTexturesRegistered =>
        \A i \in TexturedDraws :
            \A j \in ObjectCalls(i) :
                callLog[j].op = "SetShaderTexture" =>
                    /\ callLog[i].shader.objectTexture =
                          FindTextureSlot(callLog[j].arg[1])
                    /\ callLog[i].shader.objectTexture >= 0
                    /\ callLog[i].shader.objectTexture < m_loadedTextures

\* The calls of CreateGLTexture among the first k calls of the last operation
\* that returned true.
Successes(k) ==
    {j \in 1..k : callLog[j].op = "CreateGLTexture" /\ callLog[j].ret = "true"}

\* C13: whichever calls of CreateGLTexture fail, LoadSceneTextures attempts
\* all ten in its order and then calls BindGLTextures once; m_loadedTextures
\* is the number of calls that succeeded, their tags fill the slots from 0 in
\* the order of the attempts, and the tag of a failed call is not found.
C13_LoadIsBestEffort ==
    lastCall.op = "LoadSceneTextures" =>
        /\ Len(callLog) = Len(SceneTextures) + 1
        /\ \A k \in DOMAIN SceneTextures :
              /\ callLog[k].op = "CreateGLTexture"
              /\ callLog[k].arg = SceneTextures[k]
        /\ callLog[Len(callLog)].op = "BindGLTextures"
        /\ m_loadedTextures = Cardinality(Successes(Len(SceneTextures)))
        /\ \A k \in DOMAIN SceneTextures :
              IF callLog[k].ret = "true"
              THEN /\ FindTextureSlot(SceneTextures[k][2]) =
                         Cardinality(Successes(k - 1))
                   /\ m_textureIDs[Cardinality(Successes(k))].tag =
                         SceneTextures[k][2]
              ELSE FindTextureSlot(SceneTextures[k][2]) = -1

\* LoadSceneTextures has returned with calls that failed before, between and
\* after calls that succeeded.
C13_Witness ==
    /\ lastCall.op = "LoadSceneTextures"
    /\ callLog[1].ret = "false"
    /\ callLog[2].ret = "true"
    /\ callLog[5].ret = "false"
    /\ callLog[9].ret = "true"
    /\ callLog[10].ret = "false"
    /\ m_loadedTextures = 4
    /\ FindTextureSlot("leather") = 3

\* C14: with a NULL shader manager no operation of the scene ends the
\* process, dereferences the pointer or writes a uniform.
C14_NullShaderManagerIsHarmless ==
    m_pShaderManager = "NULL" =>
        /\ ~crashed
        /\ lastCall.ret # "NULL dereferenced"
        /\ shader = ShaderInit

====
